---- MODULE Spec2Model ----
(***************************************************************************)
(* Model of src/app.py: the import pipeline (process_library,              *)
(* call_lexicon_api, call_llm_for_tags, insert_track_data), the tracks     *)
(* table and the HTTP handlers that write to it or to the global           *)
(* tag_limit.                                                              *)
(***************************************************************************)
EXTENDS Integers, Sequences, FiniteSets, TLC

(* ------------------------------ bounds --------------------------------- *)

\* most TRACK elements in one uploaded file
MaxTracks == 2
\* highest rowid the AUTOINCREMENT counter hands out
MaxId == 2

(* ------------------------------ values --------------------------------- *)

\* Python None / SQL NULL
None == "<None>"

\* Name and Artist attributes the uploaded files carry
Names == {"A"}
Artists == {"X"}

\* name and artist values the clients of POST /tracks and PUT /tracks/<id> send
CrudNames == {"A", "B", None, ""}
CrudArtists == {"X", None, ""}

\* a TRACK element, reduced to the two attributes the dedup key is made of
Elements == [Name : Names \cup {None}, Artist : Artists \cup {None}]

RECURSIVE SeqsUpTo(_, _)
SeqsUpTo(S, n) ==
    IF n = 0 THEN {<<>>}
    ELSE LET shorter == SeqsUpTo(S, n - 1)
         IN shorter \cup {Append(s, e) : s \in {t \in shorter : Len(t) = n - 1}, e \in S}

\* what ET.parse / root.find('COLLECTION') / findall('TRACK') can make of an upload
Files ==
    {[kind |-> "not_xml", elems |-> <<>>], [kind |-> "no_collection", elems |-> <<>>]}
    \cup {[kind |-> "xml", elems |-> s] : s \in SeqsUpTo(Elements, MaxTracks)}

\* the six categories with energy_vibe listed ahead of sub_genre
Categories_vibe_first ==
    <<"primary_genre", "energy_vibe", "sub_genre", "situation_environment",
      "components", "time_period">>

\* the six tag categories, in priority order
Categories ==
    <<"primary_genre", "sub_genre", "energy_vibe", "situation_environment",
      "components", "time_period">>

CategorySet == {Categories[i] : i \in 1..Len(Categories)}

\* the Python dict {}
EmptyMapping == [c \in {} |-> <<>>]

\* d.get(k, default)
Get(d, k, default) == IF k \in DOMAIN d THEN d[k] ELSE default

(* ------------------------- Python / JSON values ------------------------ *)

\* JSON values as Python objects: None, dict, list, str
Null == [t |-> "null"]
Obj(m) == [t |-> "obj", v |-> m]
Arr(s) == [t |-> "arr", v |-> s]
Str(s) == [t |-> "str", v |-> s]
PyInt(n) == [t |-> "int", v |-> n]
\* bool is a subclass of int: True == 1, False == 0
Bool(b) == [t |-> "bool", v |-> IF b THEN 1 ELSE 0]
Float(n) == [t |-> "float", v |-> n]

\* json.dumps(x): the text that json.loads turns back into x
json_dumps(x) == [t |-> "str", enc |-> x]

\* outcome of a Python call: a returned value or a raised exception class
Ret(x) == [raised |-> "none", value |-> x]
Raise(e) == [raised |-> e]

\* json.loads(s)
json_loads(s) ==
    IF s.t # "str" THEN Raise("TypeError")
    ELSE IF "enc" \in DOMAIN s THEN Ret(s.enc)
    ELSE Raise("JSONDecodeError")

\* x.get(k, default) on an arbitrary Python object
PyGet(x, k, default) ==
    IF x.t = "obj" THEN Ret(Get(x.v, k, default)) ELSE Raise("AttributeError")

\* x[0] on a Python list (IndexError when empty) or dict (KeyError: no key 0)
PyFirst(x) ==
    IF x.t = "arr"
    THEN IF Len(x.v) = 0 THEN Raise("IndexError") ELSE Ret(x.v[1])
    ELSE IF x.t = "obj" THEN Raise("KeyError")
    ELSE Raise("TypeError")

\* r, or f applied to the value r returned: an exception skips the rest
Bind(r, f(_)) == IF r.raised # "none" THEN r ELSE f(r.value)

\* Python truthiness of a JSON value
Truthy(x) ==
    CASE x.t = "null" -> FALSE
      [] x.t = "obj" -> DOMAIN x.v # {}
      [] x.t = "arr" -> Len(x.v) > 0
      [] x.t = "str" -> ("enc" \in DOMAIN x) \/ x.v # ""

\* exception classes under requests.exceptions.RequestException
\* (requests' own JSONDecodeError, raised by response.json(), is one of them)
RequestExceptions == {"ConnectionError", "Timeout", "HTTPError", "RequestsJSONDecodeError"}

\* what requests.get / requests.post followed by raise_for_status() and
\* response.json() yields for a response of the service
http_json(resp) ==
    CASE resp.kind = "transport_error" -> Raise("ConnectionError")
      [] resp.kind = "timeout" -> Raise("Timeout")
      [] resp.kind = "http_error" -> Raise("HTTPError")
      [] resp.kind = "not_json" -> Raise("RequestsJSONDecodeError")
      [] resp.kind = "json" -> Ret(resp.body)

(* --------------------------- external services ------------------------- *)

Cand1 == Obj([title |-> "c1"])
Cand2 == Obj([title |-> "c2"])

\* responses of the Lexicon service to GET /v1/search/tracks
LexiconResponses ==
    {[kind |-> "transport_error"], [kind |-> "timeout"], [kind |-> "http_error"],
     [kind |-> "not_json"]}
    \cup {[kind |-> "json", body |-> b] :
            b \in {Arr(<<>>),
                   Obj(EmptyMapping),
                   Obj([tracks |-> Arr(<<>>)]),
                   Obj([tracks |-> Arr(<<Cand1>>)]),
                   Obj([tracks |-> Arr(<<Cand2, Cand1>>)])}}

MockTags ==
    [primary_genre |-> <<"techno">>,
     sub_genre |-> <<"hard techno", "industrial">>,
     energy_vibe |-> <<"peak hour", "aggressive">>,
     situation_environment |-> <<"main floor">>,
     components |-> <<"vocal", "remix">>,
     time_period |-> <<"2010s">>]

\* tag objects the generation service may put in the message content:
\* all six categories, or only one of them
OneEach == [c \in CategorySet |-> <<"house">>]
TwoSub == [OneEach EXCEPT !["sub_genre"] = <<"deep house", "tech house">>]
OnlyPrimary == [primary_genre |-> <<"house">>]

\* message contents: absent, empty, prose, a JSON object with the six keys
Contents == {Null, Str(""), Str("sure, here are tags"), json_dumps(Obj(TwoSub))}

\* a 200 answer whose first choice carries the content c
Completion(c) == Obj([choices |-> Arr(<<Obj([message |-> Obj([content |-> c])])>>)])

\* bodies of the generation service's answer to POST /v1/chat/completions
LlmBodies ==
    {Arr(<<>>),
     Obj(EmptyMapping),
     Obj([choices |-> Arr(<<>>)]),
     Obj([choices |-> Arr(<<Obj(EmptyMapping)>>)]),
     Obj([choices |-> Arr(<<Obj([message |-> Null])>>)]),
     Obj([choices |-> Arr(<<Obj([message |-> Obj(EmptyMapping)])>>)])}
    \cup {Completion(c) : c \in Contents}

LlmResponses ==
    {[kind |-> "transport_error"], [kind |-> "timeout"], [kind |-> "http_error"],
     [kind |-> "not_json"]}
    \cup {[kind |-> "json", body |-> b] : b \in LlmBodies}

\* answers whose JSON object leaves categories out
LlmPartialResponses == {[kind |-> "json", body |-> Completion(json_dumps(Obj(OnlyPrimary)))]}

(* ------------------------------- state --------------------------------- *)

VARIABLES
    tracks,          \* the tracks table: rows in rowid order
    next_id,         \* the rowid AUTOINCREMENT hands out next
    tag_limit,       \* the global tag_limit
    api_key,         \* os.environ.get("OPENAI_API_KEY")
    xml,             \* the file process_library is working on
    run,             \* 2 while the file just imported is being imported again, else 1
    pc,              \* position of process_library
    idx,             \* index of the TRACK element the loop is at
    lexicon_data,    \* local of process_library
    generated_tags,  \* local of process_library
    result,          \* what process_library returned
    prompts,         \* prompts the running process_library has sent to the generation service
    exported,        \* the track elements of the last exported document, Null before the first
    other            \* position and locals of a second process_library running at the same time

vars ==
    <<tracks, next_id, tag_limit, api_key, xml, run, pc, idx, lexicon_data,
      generated_tags, result, prompts, exported, other>>

(* ------------------------------ the store ------------------------------ *)

\* SQL "a = b": never true when either side is NULL
SqlEq(a, b) == a # None /\ b # None /\ a = b

\* SELECT id FROM tracks WHERE name = ? AND artist = ?  ... fetchone() is not None
SelectByNameArtist(name, artist) ==
    \E i \in 1..Len(tracks) : SqlEq(tracks[i].name, name) /\ SqlEq(tracks[i].artist, artist)

\* SELECT * FROM tracks WHERE id = ?  ... fetchone() is not None
SelectById(track_id) == \E i \in 1..Len(tracks) : tracks[i].id = track_id

\* a tracks table whose name column lacks NOT NULL
NotNullOk_unconstrained(name) == TRUE

\* the NOT NULL constraint of CREATE TABLE tracks (name TEXT NOT NULL, ...)
NotNullOk(name) == name # None

\* the row INSERT INTO tracks (...) VALUES (...) makes
NewRow(name, artist, tags) == [id |-> next_id, name |-> name, artist |-> artist, tags |-> tags]

(* ------------------------- the pipeline's calls ------------------------ *)

\* call_lexicon_api(artist, name), given the service's response
call_lexicon_api(artist, name, resp) ==
    LET lexicon_data_r == http_json(resp) IN
    IF lexicon_data_r.raised \in RequestExceptions THEN Ret(Obj(EmptyMapping))
    ELSE Bind(lexicon_data_r, LAMBDA body :
         Bind(PyGet(body, "tracks", Arr(<<>>)), LAMBDA found :
              IF Truthy(found) THEN PyFirst(found) ELSE Ret(Obj(EmptyMapping))))

\* a prompt that carries the default limit instead of reading the global
Prompt_default_limit(track_data) == PyInt(1)

\* prompt_text, reduced to the tag limit it asks the service to keep to
\* ("provide exactly {tag_limit} tags")
Prompt(track_data) == tag_limit

\* "if not api_key"
NoApiKey == api_key \in {None, ""}

\* the try block of call_llm_for_tags, given the service's response
ParseLlmResponse(resp) ==
    LET api_result_r == http_json(resp) IN
    IF api_result_r.raised \in RequestExceptions THEN Ret(Obj(EmptyMapping))
    ELSE LET text_part_r ==
                 Bind(api_result_r, LAMBDA api_result :
                 Bind(PyGet(api_result, "choices", Arr(<<Obj(EmptyMapping)>>)), LAMBDA choices :
                 Bind(PyFirst(choices), LAMBDA choice :
                 Bind(PyGet(choice, "message", Obj(EmptyMapping)), LAMBDA message :
                      PyGet(message, "content", Null)))))
         IN  IF text_part_r.raised # "none" THEN text_part_r
             ELSE IF ~Truthy(text_part_r.value) THEN Ret(Obj(EmptyMapping))
             ELSE LET generated_data_r == json_loads(text_part_r.value) IN
                  IF generated_data_r.raised = "JSONDecodeError" THEN Ret(Obj(EmptyMapping))
                  ELSE generated_data_r

\* call_llm_for_tags without the "if not api_key" fallback
call_llm_for_tags_no_fallback(track_data, resp) ==
    LET r == ParseLlmResponse(resp) IN
    IF r.raised = "none"
    THEN [raised |-> "none", value |-> r.value, sent |-> <<Prompt(track_data)>>]
    ELSE [raised |-> r.raised, sent |-> <<Prompt(track_data)>>]

\* call_llm_for_tags(track_data), given the service's response: what it returns
\* or raises, and the prompts it sent
call_llm_for_tags(track_data, resp) ==
    IF NoApiKey
    THEN [raised |-> "none", value |-> Obj(MockTags), sent |-> <<>>]
    ELSE LET r == ParseLlmResponse(resp) IN
         IF r.raised = "none"
         THEN [raised |-> "none", value |-> r.value, sent |-> <<Prompt(track_data)>>]
         ELSE [raised |-> r.raised, sent |-> <<Prompt(track_data)>>]

\* a parser that takes a document without a COLLECTION element for an empty one
parse_tracks_lenient(f) ==
    CASE f.kind = "not_xml" -> Raise("ParseError")
      [] f.kind = "no_collection" -> Ret(<<>>)
      [] f.kind = "xml" -> Ret(f.elems)

\* ET.parse(xml_path), root.find('COLLECTION'), collection.findall('TRACK')
parse_tracks(f) ==
    CASE f.kind = "not_xml" -> Raise("ParseError")
      [] f.kind = "no_collection" -> Raise("AttributeError")
      [] f.kind = "xml" -> Ret(f.elems)

\* an except clause that names sqlite3.IntegrityError only
SqliteErrors_integrity_only == {"IntegrityError"}

\* exception classes under sqlite3.Error, which insert_track_data catches
SqliteErrors == {"IntegrityError", "OperationalError"}

(* ------------------------------- Init ---------------------------------- *)

\* a process_library that has not been called
Idle ==
    [pc |-> "idle", elems |-> <<>>, idx |-> 0, lexicon_data |-> Null,
     generated_tags |-> Null, result |-> "none"]

Init ==
    /\ tracks = <<>>
    /\ next_id = 1
    /\ tag_limit = PyInt(1)
    /\ api_key \in {None, "sk-key"}
    /\ xml = [kind |-> "xml", elems |-> <<>>]
    /\ run = 1
    /\ pc = "idle"
    /\ idx = 0
    /\ lexicon_data = Null
    /\ generated_tags = Null
    /\ result = "none"
    /\ prompts = <<>>
    /\ exported = Null
    /\ other = Idle

(* --------------------------- process_library --------------------------- *)

\* the TRACK element the loop is at
track == xml.elems[idx]

\* "except Exception as e: return {"error": ...}"
Abort ==
    /\ pc' = "done"
    /\ result' = "error"
    /\ prompts' = <<>>
    /\ lexicon_data' = Null
    /\ generated_tags' = Null
    /\ UNCHANGED idx

\* the end of the loop body: the next TRACK element, or the return after the loop
NextTrack ==
    /\ lexicon_data' = Null
    /\ generated_tags' = Null
    /\ IF idx < Len(xml.elems)
       THEN idx' = idx + 1 /\ pc' = "enrich" /\ UNCHANGED <<result, prompts>>
       ELSE pc' = "done" /\ result' = "message" /\ prompts' = <<>> /\ UNCHANGED idx

\* process_library up to the loop: parse the file, find its TRACK elements
StartImport(f) ==
    /\ xml' = f
    /\ prompts' = <<>>
    /\ lexicon_data' = Null
    /\ generated_tags' = Null
    /\ LET found == parse_tracks(f) IN
       IF found.raised # "none"
       THEN pc' = "done" /\ result' = "error" /\ idx' = 0
       ELSE IF Len(found.value) = 0
       THEN pc' = "done" /\ result' = "message" /\ idx' = 0
       ELSE pc' = "enrich" /\ result' = "none" /\ idx' = 1
    /\ UNCHANGED <<tracks, next_id, tag_limit, api_key, exported, other>>

\* upload_library saves the file and calls process_library on it
upload_library(f) ==
    /\ pc \in {"idle", "done"}
    /\ run' = 1
    /\ StartImport(f)

\* upload_library with the file whose import has just returned
reupload ==
    /\ pc = "done"
    /\ run' = 2
    /\ StartImport(xml)

\* a loop that runs the dedup check first and spends no calls on a known track
Enrich_skip_known(resp) ==
    /\ pc = "enrich"
    /\ IF SelectByNameArtist(track.Name, track.Artist)
       THEN NextTrack
       ELSE LET r == call_lexicon_api(track.Artist, track.Name, resp) IN
            IF r.raised # "none"
            THEN Abort
            ELSE /\ lexicon_data' = r.value
                 /\ pc' = "generate"
                 /\ UNCHANGED <<generated_tags, result, idx, prompts>>
    /\ UNCHANGED <<tracks, next_id, tag_limit, api_key, xml, run, exported, other>>

\* lexicon_data = call_lexicon_api(artist, track_name)
Enrich(resp) ==
    /\ pc = "enrich"
    /\ LET r == call_lexicon_api(track.Artist, track.Name, resp) IN
       IF r.raised # "none"
       THEN Abort
       ELSE /\ lexicon_data' = r.value
            /\ pc' = "generate"
            /\ UNCHANGED <<generated_tags, result, idx, prompts>>
    /\ UNCHANGED <<tracks, next_id, tag_limit, api_key, xml, run, exported, other>>

\* generated_tags = call_llm_for_tags(track_data)
Generate(resp) ==
    /\ pc = "generate"
    /\ LET track_data == [ARTIST |-> track.Artist, TITLE |-> track.Name,
                          lexicon_data |-> lexicon_data]
           r == call_llm_for_tags(track_data, resp)
       IN  IF r.raised # "none"
           THEN Abort
           ELSE /\ prompts' = prompts \o r.sent
                /\ generated_tags' = r.value
                /\ pc' = "lookup"
                /\ UNCHANGED <<lexicon_data, result, idx>>
    /\ UNCHANGED <<tracks, next_id, tag_limit, api_key, xml, run, exported, other>>

\* a dedup path that writes the newly generated tags into the record it found
Lookup_refresh(db) ==
    /\ pc = "lookup"
    /\ CASE db = "connect_error" -> Abort /\ UNCHANGED tracks
         [] db = "error" -> NextTrack /\ UNCHANGED tracks
         [] db = "ok" ->
              IF SelectByNameArtist(track.Name, track.Artist)
              THEN /\ tracks' = [i \in 1..Len(tracks) |->
                                   IF /\ SqlEq(tracks[i].name, track.Name)
                                      /\ SqlEq(tracks[i].artist, track.Artist)
                                   THEN [tracks[i] EXCEPT !.tags = json_dumps(generated_tags)]
                                   ELSE tracks[i]]
                   /\ NextTrack
              ELSE /\ pc' = "insert"
                   /\ UNCHANGED <<tracks, lexicon_data, generated_tags, result, idx, prompts>>
    /\ UNCHANGED <<next_id, tag_limit, api_key, xml, run, exported, other>>

\* insert_track_data up to "if existing_track": connect, SELECT, duplicate skip
Lookup(db) ==
    /\ pc = "lookup"
    /\ CASE db = "connect_error" -> Abort
         [] db = "error" -> NextTrack
         [] db = "ok" ->
              IF SelectByNameArtist(track.Name, track.Artist)
              THEN NextTrack
              ELSE pc' = "insert" /\ UNCHANGED <<lexicon_data, generated_tags, result, idx, prompts>>
    /\ UNCHANGED <<tracks, next_id, tag_limit, api_key, xml, run, exported, other>>

\* the exception, if any, that INSERT and commit end in
InsertError(name, db) ==
    IF db = "error" \/ next_id > MaxId THEN "OperationalError"
    ELSE IF ~NotNullOk(name) THEN "IntegrityError"
    ELSE "none"

\* insert_track_data from the INSERT on: commit, or rollback on sqlite3.Error
Insert(db) ==
    /\ pc = "insert"
    /\ LET e == InsertError(track.Name, db) IN
       IF e = "none"
       THEN /\ tracks' = Append(tracks, NewRow(track.Name, track.Artist, json_dumps(generated_tags)))
            /\ next_id' = next_id + 1
            /\ NextTrack
       ELSE IF e \in SqliteErrors
       THEN UNCHANGED <<tracks, next_id>> /\ NextTrack
       ELSE UNCHANGED <<tracks, next_id>> /\ Abort
    /\ UNCHANGED <<tag_limit, api_key, xml, run, exported, other>>

(* ----------------------------- HTTP handlers --------------------------- *)

\* "if not name or not artist" of add_track and update_track
Missing(x) == x \in {None, ""}

batch == <<xml, run, pc, idx, lexicon_data, generated_tags, result, prompts>>

\* POST /tracks
add_track(name, artist, db) ==
    /\ IF Missing(name) \/ Missing(artist) \/ db = "error" \/ next_id > MaxId
       THEN UNCHANGED <<tracks, next_id>>
       ELSE /\ tracks' = Append(tracks, NewRow(name, artist, Null))
            /\ next_id' = next_id + 1
    /\ UNCHANGED <<tag_limit, api_key, exported, other>>
    /\ UNCHANGED batch

\* PUT /tracks/<track_id>
update_track(track_id, name, artist, db) ==
    /\ IF Missing(name) \/ Missing(artist) \/ db = "error" \/ ~SelectById(track_id)
       THEN UNCHANGED tracks
       ELSE tracks' = [i \in 1..Len(tracks) |->
                         IF tracks[i].id = track_id
                         THEN [tracks[i] EXCEPT !.name = name, !.artist = artist]
                         ELSE tracks[i]]
    /\ UNCHANGED <<next_id, tag_limit, api_key, exported, other>>
    /\ UNCHANGED batch

\* DELETE /tracks/<track_id>
delete_track(track_id, db) ==
    /\ IF db = "error" \/ ~SelectById(track_id)
       THEN UNCHANGED tracks
       ELSE tracks' = SelectSeq(tracks, LAMBDA row : row.id # track_id)
    /\ UNCHANGED <<next_id, tag_limit, api_key, exported, other>>
    /\ UNCHANGED batch

\* "new_limit is None or not isinstance(new_limit, int) or new_limit < 0"
InvalidLimit(new_limit) ==
    \/ new_limit.t = "null"
    \/ new_limit.t \notin {"int", "bool"}
    \/ new_limit.v < 0

\* POST /set_tag_limit
set_tag_limit(new_limit) ==
    /\ IF InvalidLimit(new_limit)
       THEN UNCHANGED tag_limit
       ELSE tag_limit' = new_limit
    /\ UNCHANGED <<tracks, next_id, api_key, exported, other>>
    /\ UNCHANGED batch

\* values a client sends as max_tags (Null also stands for a missing key)
MaxTagsInputs == {Null, Str("2"), Float(1), PyInt(-1), PyInt(1), PyInt(2)}

\* further values of max_tags: zero, and JSON true and false
MaxTagsEdge == {PyInt(0), Bool(TRUE), Bool(FALSE)}

DbOutcomes == {"ok", "error"}

\* one import after another, nothing else running
Next ==
    \/ \E f \in Files : upload_library(f)
    \/ \E resp \in LexiconResponses : Enrich(resp)
    \/ \E resp \in LlmResponses : Generate(resp)
    \/ \E db \in DbOutcomes \cup {"connect_error"} : Lookup(db)
    \/ \E db \in DbOutcomes : Insert(db)

Spec == Init /\ [][Next]_vars

\* imports, and the same file uploaded again once its import has returned
NextReimport ==
    \/ Next
    \/ reupload

SpecReimport == Init /\ [][NextReimport]_vars

\* imports against a generation service that also sends partial answers
NextReplies ==
    \/ Next
    \/ \E resp \in LlmPartialResponses : Generate(resp)

SpecReplies == Init /\ [][NextReplies]_vars

\* imports, with clients changing the tag limit while they run
NextLimit ==
    \/ Next
    \/ \E new_limit \in MaxTagsInputs : set_tag_limit(new_limit)

SpecLimit == Init /\ [][NextLimit]_vars

\* the process started without OPENAI_API_KEY in its environment
InitCrud == Init /\ api_key = None

\* imports together with every handler that writes a row or the tag limit
NextCrud ==
    \/ Next
    \/ \E name \in CrudNames, artist \in CrudArtists, db \in DbOutcomes :
         add_track(name, artist, db)
    \/ \E track_id \in 1..MaxId, name \in CrudNames, artist \in CrudArtists, db \in DbOutcomes :
         update_track(track_id, name, artist, db)
    \/ \E track_id \in 1..MaxId, db \in DbOutcomes : delete_track(track_id, db)
    \/ \E new_limit \in MaxTagsInputs \cup MaxTagsEdge : set_tag_limit(new_limit)

SpecCrud == InitCrud /\ [][NextCrud]_vars

(* ------------------ a second, concurrent process_library --------------- *)

\* the TRACK element the second batch's loop is at
other_track == other.elems[other.idx]

\* "except Exception as e: return {"error": ...}" in the second batch
other_Abort ==
    [other EXCEPT !.pc = "done", !.result = "error", !.lexicon_data = Null,
                  !.generated_tags = Null]

\* the end of the second batch's loop body
other_NextTrack ==
    IF other.idx < Len(other.elems)
    THEN [other EXCEPT !.pc = "enrich", !.idx = other.idx + 1, !.lexicon_data = Null,
                       !.generated_tags = Null]
    ELSE [other EXCEPT !.pc = "done", !.result = "message", !.lexicon_data = Null,
                       !.generated_tags = Null]

\* a second upload_library request, served while the first one may be running
other_upload_library(f) ==
    /\ other.pc \in {"idle", "done"}
    /\ LET found == parse_tracks(f) IN
       other' = IF found.raised # "none"
                THEN [Idle EXCEPT !.pc = "done", !.result = "error"]
                ELSE IF Len(found.value) = 0
                THEN [Idle EXCEPT !.pc = "done", !.result = "message"]
                ELSE [Idle EXCEPT !.pc = "enrich", !.elems = found.value, !.idx = 1]
    /\ UNCHANGED <<tracks, next_id, tag_limit, api_key, exported>>
    /\ UNCHANGED batch

\* call_lexicon_api in the second batch
other_Enrich(resp) ==
    /\ other.pc = "enrich"
    /\ LET r == call_lexicon_api(other_track.Artist, other_track.Name, resp) IN
       other' = IF r.raised # "none"
                THEN other_Abort
                ELSE [other EXCEPT !.pc = "generate", !.lexicon_data = r.value]
    /\ UNCHANGED <<tracks, next_id, tag_limit, api_key, exported>>
    /\ UNCHANGED batch

\* call_llm_for_tags in the second batch
other_Generate(resp) ==
    /\ other.pc = "generate"
    /\ LET track_data == [ARTIST |-> other_track.Artist, TITLE |-> other_track.Name,
                          lexicon_data |-> other.lexicon_data]
           r == call_llm_for_tags(track_data, resp)
       IN  other' = IF r.raised # "none"
                    THEN other_Abort
                    ELSE [other EXCEPT !.pc = "lookup", !.generated_tags = r.value]
    /\ UNCHANGED <<tracks, next_id, tag_limit, api_key, exported>>
    /\ UNCHANGED batch

\* insert_track_data up to "if existing_track" in the second batch, on a
\* connection of its own
other_Lookup(db) ==
    /\ other.pc = "lookup"
    /\ other' = CASE db = "connect_error" -> other_Abort
                  [] db = "error" -> other_NextTrack
                  [] db = "ok" ->
                       IF SelectByNameArtist(other_track.Name, other_track.Artist)
                       THEN other_NextTrack
                       ELSE [other EXCEPT !.pc = "insert"]
    /\ UNCHANGED <<tracks, next_id, tag_limit, api_key, exported>>
    /\ UNCHANGED batch

\* insert_track_data from the INSERT on in the second batch
other_Insert(db) ==
    /\ other.pc = "insert"
    /\ LET e == InsertError(other_track.Name, db) IN
       IF e = "none"
       THEN /\ tracks' = Append(tracks, NewRow(other_track.Name, other_track.Artist,
                                               json_dumps(other.generated_tags)))
            /\ next_id' = next_id + 1
            /\ other' = other_NextTrack
       ELSE /\ UNCHANGED <<tracks, next_id>>
            /\ other' = IF e \in SqliteErrors THEN other_NextTrack ELSE other_Abort
    /\ UNCHANGED <<tag_limit, api_key, exported>>
    /\ UNCHANGED batch

\* files whose TRACK elements all carry Name and Artist
KeyedFiles ==
    {f \in Files : \A i \in 1..Len(f.elems) :
                      f.elems[i].Name # None /\ f.elems[i].Artist # None}

\* answers of the services while two batches run
FewLexiconResponses ==
    {[kind |-> "timeout"], [kind |-> "json", body |-> Obj([tracks |-> Arr(<<Cand1>>)])]}
FewLlmResponses == {[kind |-> "timeout"]}

\* two upload_library requests served at the same time, each thread running
\* its own process_library against the one tracks table
NextConcurrent ==
    \/ \E f \in KeyedFiles : upload_library(f)
    \/ \E resp \in FewLexiconResponses : Enrich(resp)
    \/ \E resp \in FewLlmResponses : Generate(resp)
    \/ \E db \in DbOutcomes \cup {"connect_error"} : Lookup(db)
    \/ \E db \in DbOutcomes : Insert(db)
    \/ \E f \in KeyedFiles : other_upload_library(f)
    \/ \E resp \in FewLexiconResponses : other_Enrich(resp)
    \/ \E resp \in FewLlmResponses : other_Generate(resp)
    \/ \E db \in DbOutcomes \cup {"connect_error"} : other_Lookup(db)
    \/ \E db \in DbOutcomes : other_Insert(db)

SpecConcurrent == InitCrud /\ [][NextConcurrent]_vars

(* ---------------- import snapshot and export (spec 3, 4.1, 4.5) --------- *)

\* attribute sets of TRACK elements: one with Grouping, Comments and two
\* attributes the system does not model, one with both fields empty, one
\* without them
FullTrack ==
    [Name |-> "A", Artist |-> "X", Grouping |-> "House", Comments |-> "nice",
     TrackID |-> "7", Rating |-> "5"]
BlankTrack == [Name |-> "B", Artist |-> "X", Grouping |-> "", Comments |-> ""]
BareTrack == [Name |-> "C", Artist |-> "X"]
ExportElements == {FullTrack, BlankTrack, BareTrack}

\* a tag set with the six keys and no tag
NoTags == [c \in CategorySet |-> <<>>]

\* generated tags a record is persisted with: absent, or serialized
StoredTags ==
    {Null, json_dumps(Obj(EmptyMapping)), json_dumps(Obj(NoTags)),
     json_dumps(Obj(OnlyPrimary)), json_dumps(Obj(MockTags))}

\* import of one TRACK element: the dedup gate, then a record that carries the
\* serialized snapshot of every attribute of the element
import_track(attrs, tags) ==
    /\ next_id <= MaxId
    /\ ~SelectByNameArtist(Get(attrs, "Name", None), Get(attrs, "Artist", None))
    /\ tracks' = Append(tracks,
                        [id |-> next_id,
                         name |-> Get(attrs, "Name", None),
                         artist |-> Get(attrs, "Artist", None),
                         tags |-> tags,
                         original_metadata |-> json_dumps(Obj(attrs))])
    /\ next_id' = next_id + 1
    /\ UNCHANGED <<tag_limit, api_key, exported, other>>
    /\ UNCHANGED batch

\* generated_tags reset to absent, every other field left alone
clear_tags(track_id) ==
    /\ SelectById(track_id)
    /\ tracks' = [i \in 1..Len(tracks) |->
                    IF tracks[i].id = track_id
                    THEN [tracks[i] EXCEPT !.tags = Null]
                    ELSE tracks[i]]
    /\ UNCHANGED <<next_id, tag_limit, api_key, exported, other>>
    /\ UNCHANGED batch

\* the tags of categories i, i+1, ... in priority order, each category's tags
\* in stored order
RECURSIVE Flatten(_, _)
Flatten(tags, i) ==
    IF i > Len(Categories) THEN <<>>
    ELSE Get(tags, Categories[i], <<>>) \o Flatten(tags, i + 1)

\* sep.join(s)
RECURSIVE Join(_, _)
Join(sep, s) ==
    IF Len(s) = 0 THEN ""
    ELSE IF Len(s) = 1 THEN s[1]
    ELSE s[1] \o sep \o Join(sep, Tail(s))

\* the deserialized generated tags of a record, {} when absent or unreadable
TagsOf(row) ==
    LET tags_r == json_loads(row.tags) IN
    IF tags_r.raised # "none" \/ tags_r.value.t # "obj" THEN EmptyMapping
    ELSE tags_r.value.v

\* the flat, comma-joined tag list of a record
TagList(row) == Join(",", Flatten(TagsOf(row), 1))

\* original + " | " + addition, or the addition alone on an empty original
Merge(original, addition) ==
    IF original # "" THEN original \o " | " \o addition ELSE addition

\* an export that merges the tag list into every record, tagged or not
export_track_always_merge(row) ==
    LET meta_r == json_loads(Get(row, "original_metadata", Null)) IN
    IF meta_r.raised # "none" \/ meta_r.value.t # "obj" THEN <<>>
    ELSE LET attrs == meta_r.value.v
             taglist == TagList(row)
         IN  <<[k \in DOMAIN attrs \cup {"Grouping", "Comments"} |->
                  CASE k = "Grouping" -> Merge(Get(attrs, "Grouping", ""), taglist)
                    [] k = "Comments" ->
                         Merge(Get(attrs, "Comments", ""), "Generated Tags: " \o taglist)
                    [] OTHER -> attrs[k]]>>

\* the track elements export emits for one record: none when the record has
\* no readable original_metadata, else one, built on the full snapshot
export_track(row) ==
    LET meta_r == json_loads(Get(row, "original_metadata", Null)) IN
    IF meta_r.raised # "none" \/ meta_r.value.t # "obj" THEN <<>>
    ELSE LET attrs == meta_r.value.v
             taglist == TagList(row)
         IN  IF taglist = "" THEN <<attrs>>
             ELSE <<[k \in DOMAIN attrs \cup {"Grouping", "Comments"} |->
                       CASE k = "Grouping" -> Merge(Get(attrs, "Grouping", ""), taglist)
                         [] k = "Comments" ->
                              Merge(Get(attrs, "Comments", ""), "Generated Tags: " \o taglist)
                         [] OTHER -> attrs[k]]>>

\* the track elements of the exported document, in record order
RECURSIVE ExportRows(_)
ExportRows(rows) ==
    IF Len(rows) = 0 THEN <<>>
    ELSE export_track(Head(rows)) \o ExportRows(Tail(rows))

\* export: one pass over the persisted set
export_library ==
    /\ exported' = Arr(ExportRows(tracks))
    /\ UNCHANGED <<tracks, next_id, tag_limit, api_key, other>>
    /\ UNCHANGED batch

\* records imported with their snapshot, tags cleared, and exports
NextExport ==
    \/ \E attrs \in ExportElements, tags \in StoredTags : import_track(attrs, tags)
    \/ \E track_id \in 1..MaxId : clear_tags(track_id)
    \/ export_library

SpecExport == InitCrud /\ [][NextExport]_vars

(* ============================== properties ============================= *)

\* process_library is inside its loop, at TRACK element idx
InLoop == pc \in {"enrich", "generate", "lookup", "insert"}

\* some persisted record has this (name, artist) pair
Persisted(name, artist) ==
    \E i \in 1..Len(tracks) : tracks[i].name = name /\ tracks[i].artist = artist

\* a step that ends the loop body for the current TRACK element and goes on:
\* to the next element, or to the normal return after the last one
Continues ==
    IF idx < Len(xml.elems)
    THEN pc' = "enrich" /\ idx' = idx + 1 /\ result' = result
    ELSE pc' = "done" /\ result' = "message"

\* s is an initial part of t
IsPrefix(s, t) == Len(s) <= Len(t) /\ \A i \in 1..Len(s) : s[i] = t[i]

\* number of tags a tag set has in category c
TagCount(tags, c) == Len(Get(tags.v, c, <<>>))

\* the quota of spec section 4.4 for a tag set generated under the given limit
WithinQuota(tags, limit) ==
    /\ TagCount(tags, "primary_genre") <= 1
    /\ TagCount(tags, "time_period") <= 1
    /\ \A c \in {"sub_genre", "energy_vibe", "situation_environment", "components"} :
         TagCount(tags, c) <= limit.v

(* C1: when a file is imported a second time, the import adds no record for a
   (name, artist) pair that is already persisted, whether or not the Artist
   attribute is present. *)
C1_DedupIdempotence ==
    [][(pc = "insert" /\ run = 2 /\ Len(tracks') > Len(tracks))
         => ~Persisted(track.Name, track.Artist)]_vars

(* C2: no two persisted records have the same (name, artist) pair, whatever
   sequence of imports, add_track, update_track and delete_track ran. *)
C2_UniqueNameArtist ==
    \A i, j \in 1..Len(tracks) :
        (tracks[i].name = tracks[j].name /\ tracks[i].artist = tracks[j].artist) => i = j

(* C3: every tag set call_llm_for_tags returns, live or mock, keeps to the
   quota: at most 1 primary_genre, at most 1 time_period, at most tag_limit
   (its value at the call) in each of the other four categories. *)
C3_QuotaInvariant ==
    [][(pc = "generate" /\ pc' = "lookup") => WithinQuota(generated_tags', tag_limit)]_vars

(* C4: with no OPENAI_API_KEY, call_llm_for_tags returns the fixed mock set
   for every track and every value of tag_limit, and sends no request to the
   generation service. *)
C4_FallbackDeterminism ==
    [][(NoApiKey /\ pc = "generate" /\ pc' # "generate")
         => /\ pc' = "lookup"
            /\ generated_tags' =
                 Obj([primary_genre |-> <<"techno">>,
                      sub_genre |-> <<"hard techno", "industrial">>,
                      energy_vibe |-> <<"peak hour", "aggressive">>,
                      situation_environment |-> <<"main floor">>,
                      components |-> <<"vocal", "remix">>,
                      time_period |-> <<"2010s">>])
            /\ prompts' = <<>>
            /\ prompts = <<>>]_vars

\* the mock came back for a second track, under a limit other than the default
C4_Witness ==
    /\ NoApiKey
    /\ pc = "lookup"
    /\ idx = 2
    /\ tag_limit # PyInt(1)
    /\ generated_tags = Obj(MockTags)
    /\ prompts = <<>>

(* C5: an upload that is not XML, or has no COLLECTION element, ends in an
   error result at once: no enrichment or generation call is made, no record
   is persisted and the store is left as it was. *)
C5_MalformedImport ==
    [][xml'.kind # "xml"
         => /\ pc' = "done"
            /\ result' = "error"
            /\ tracks' = tracks
            /\ next_id' = next_id
            /\ prompts' = <<>>
            /\ lexicon_data' = Null
            /\ generated_tags' = Null]_vars

\* a malformed upload was rejected while the store already held a record
C5_Witness ==
    /\ xml.kind \in {"not_xml", "no_collection"}
    /\ pc = "done"
    /\ result = "error"
    /\ Len(tracks) = 1

(* C6: while the loop is at a TRACK element without a Name, no record is
   persisted, and its failed insert attempt hands over to the next TRACK
   element (or to the normal return after the last one). *)
C6_SkipNameless ==
    [][(InLoop /\ track.Name = None)
         => /\ tracks' = tracks
            /\ (pc = "insert" /\ pc' # "insert") => Continues]_vars

\* a file whose first TRACK has no Name was imported to the end, and the
\* record of its second TRACK is the only one ever inserted
C6_Witness ==
    /\ pc = "done"
    /\ result = "message"
    /\ run = 1
    /\ Len(xml.elems) = 2
    /\ xml.elems[1].Name = None
    /\ xml.elems[2].Name # None
    /\ next_id = 2
    /\ Len(tracks) = 1
    /\ tracks[1].name = xml.elems[2].Name
    /\ tracks[1].artist = xml.elems[2].Artist

(* C7: whatever the generation service answers, call_llm_for_tags raises
   nothing, so the loop goes on to the dedup check, and an answer that lacks
   one of the six category keys comes back as the empty mapping. *)
C7_GenerationAbsorbed ==
    [][(pc = "generate" /\ pc' # "generate")
         => /\ pc' = "lookup"
            /\ \/ generated_tags' = Obj(EmptyMapping)
               \/ CategorySet \subseteq DOMAIN generated_tags'.v]_vars

(* C8: whatever the enrichment request ends in, call_lexicon_api hands a
   mapping back to process_library and raises nothing. *)
C8_LookupNeverRaises ==
    [][(pc = "enrich" /\ pc' # "enrich")
         => pc' = "generate" /\ lexicon_data'.t = "obj"]_vars

(* C9: an insert that fails with a store error adds nothing (the rowid
   counter included), no step of an import removes or changes a record that
   is already persisted, and the loop goes on to the next TRACK element. *)
C9_InsertFailureIsolated ==
    [][/\ IsPrefix(tracks, tracks')
       /\ (pc = "insert" /\ pc' # "insert" /\ Len(tracks') = Len(tracks))
            => (next_id' = next_id /\ Continues)]_vars

\* the store holds an earlier record, the first TRACK of this file, not a
\* duplicate, was not persisted, and the loop is at the second TRACK
C9_Witness ==
    /\ pc = "enrich"
    /\ idx = 2
    /\ Len(tracks) = 1
    /\ xml.elems[1].Name # None
    /\ ~Persisted(xml.elems[1].Name, xml.elems[1].Artist)

(* C10: with a credential, every call of call_llm_for_tags sends one prompt
   carrying the value tag_limit has at that moment; a change of tag_limit
   touches neither the prompts already sent nor the tags already generated
   or persisted. *)
C10_LimitReadAtCallTime ==
    [][/\ (~NoApiKey /\ pc = "generate" /\ pc' = "lookup")
            => prompts' = Append(prompts, tag_limit)
       /\ (tag_limit' # tag_limit)
            => /\ prompts' = prompts
               /\ generated_tags' = generated_tags
               /\ tracks' = tracks]_vars

\* the limit was changed between the first and the second track of a batch:
\* the second prompt carries the new limit, the first record keeps its tags
C10_Witness ==
    /\ pc = "lookup"
    /\ idx = 2
    /\ Len(prompts) = 2
    /\ prompts[1] # prompts[2]
    /\ prompts[2] = tag_limit
    /\ Len(tracks) = 1
    /\ tracks[1].tags = json_dumps(Obj(TwoSub))

(* C11: in every reachable state tag_limit is a non-negative integer:
   set_tag_limit replaces it only by a max_tags that is an integer >= 0, and
   leaves it as it was for a missing, non-integer or negative max_tags. *)
C11_TagLimitValid ==
    /\ tag_limit.t = "int"
    /\ tag_limit.v >= 0

(* C12: when export runs, every persisted record whose original_metadata is
   the snapshot of an element with N attributes and whose generated tags are
   empty comes out as a track element with exactly those N attributes and
   values, Grouping and Comments (or their absence) included. *)
C12_RoundTrip ==
    [][exported' # exported
         => \A i \in 1..Len(tracks) : \A attrs \in ExportElements :
              (/\ tracks[i].original_metadata = json_dumps(Obj(attrs))
               /\ tracks[i].tags \in {Null, json_dumps(Obj(EmptyMapping)),
                                      json_dumps(Obj(NoTags))})
                => /\ i <= Len(exported'.v)
                   /\ exported'.v[i] = attrs
                   /\ DOMAIN exported'.v[i] = DOMAIN attrs]_vars

\* an export of two untagged records: the six-attribute element and the one
\* without Grouping and Comments both came out as captured
C12_Witness ==
    /\ exported = Arr(<<FullTrack, BareTrack>>)
    /\ Len(tracks) = 2
    /\ tracks[1].tags = json_dumps(Obj(EmptyMapping))
    /\ tracks[2].tags = Null

\* the Grouping the merge rule gives the four merges of a one-tag and a
\* nine-tag set into an original Grouping of "House" and into an empty one
C13_Expected(original, tags) ==
    CASE original = "House" /\ tags = OnlyPrimary -> "House | house"
      [] original = "" /\ tags = OnlyPrimary -> "house"
      [] original = "House" /\ tags = MockTags ->
           "House | techno,hard techno,industrial,peak hour,aggressive,main floor,vocal,remix,2010s"
      [] original = "" /\ tags = MockTags ->
           "techno,hard techno,industrial,peak hour,aggressive,main floor,vocal,remix,2010s"

(* C13: when export runs, the Grouping of a tagged record's track element is
   the original Grouping, " | " and the comma-joined tags of the six
   categories in priority order (stored order inside a category) when the
   original Grouping is non-empty, and that tag list alone when it is empty
   or was never there. *)
C13_TagMerge ==
    [][exported' # exported
         => \A i \in 1..Len(tracks) : \A attrs \in ExportElements :
            \A tags \in {OnlyPrimary, MockTags} :
              (/\ tracks[i].original_metadata = json_dumps(Obj(attrs))
               /\ tracks[i].tags = json_dumps(Obj(tags)))
                => /\ i <= Len(exported'.v)
                   /\ "Grouping" \in DOMAIN exported'.v[i]
                   /\ exported'.v[i].Grouping =
                        C13_Expected(Get(attrs, "Grouping", ""), tags)]_vars

\* an export of a record with Grouping "House" and the nine tags of the mock
\* set, and of a record with an empty Grouping and the single tag "house"
C13_Witness ==
    /\ exported # Null
    /\ Len(exported.v) = 2
    /\ Len(tracks) = 2
    /\ tracks[1].original_metadata = json_dumps(Obj(FullTrack))
    /\ tracks[1].tags = json_dumps(Obj(MockTags))
    /\ exported.v[1].Grouping =
         "House | techno,hard techno,industrial,peak hour,aggressive,main floor,vocal,remix,2010s"
    /\ tracks[2].original_metadata = json_dumps(Obj(BlankTrack))
    /\ tracks[2].tags = json_dumps(Obj(OnlyPrimary))
    /\ exported.v[2].Grouping = "house"

(* C14: no step of an import removes, moves or changes a record that is
   already persisted, its stored tags included, also when the file holds a
   track with the same (name, artist) for which generation returned other
   tags; the store only grows. *)
C14_ImportKeepsRecords ==
    [][/\ Len(tracks') >= Len(tracks)
       /\ \A i \in 1..Len(tracks) :
            /\ tracks'[i].id = tracks[i].id
            /\ tracks'[i].name = tracks[i].name
            /\ tracks'[i].artist = tracks[i].artist
            /\ tracks'[i].tags = tracks[i].tags]_vars

\* an import is at the dedup check of its first TRACK, whose (name, artist) an
\* earlier import persisted, holding tags that differ from the stored ones
C14_Witness ==
    /\ pc = "lookup"
    /\ idx = 1
    /\ Len(tracks) = 1
    /\ SelectByNameArtist(track.Name, track.Artist)
    /\ generated_tags # Null
    /\ tracks[1].tags # json_dumps(generated_tags)

\* the batch ends in its error result
C15_Aborts == pc' = "done" /\ result' = "error"

\* the loop body is over: on to the next TRACK in document order, or to the
\* normal return when this was the last one
C15_Advances ==
    \/ idx < Len(xml.elems) /\ pc' = "enrich" /\ idx' = idx + 1
    \/ idx = Len(xml.elems) /\ pc' = "done" /\ result' = "message"

(* C15: inside one batch every TRACK goes through enrichment, then
   generation, then the dedup check, then the insert attempt; the next TRACK
   in document order starts only after that, from the first TRACK on; the
   store is written by the insert attempt alone, and with a credential the
   generation service has been called once per TRACK reached, duplicates
   included. *)
C15_PerTrackOrder ==
    [][/\ pc = "enrich" => (pc' = "generate" /\ idx' = idx) \/ C15_Aborts
       /\ pc = "generate" => (pc' = "lookup" /\ idx' = idx) \/ C15_Aborts
       /\ pc = "lookup" => (pc' = "insert" /\ idx' = idx) \/ C15_Advances \/ C15_Aborts
       /\ pc = "insert" => C15_Advances \/ C15_Aborts
       /\ (pc \in {"idle", "done"} /\ pc' \notin {"idle", "done"})
            => pc' = "enrich" /\ idx' = 1
       /\ tracks' # tracks => pc = "insert"
       /\ (~NoApiKey /\ pc' \in {"enrich", "generate"}) => Len(prompts') = idx' - 1
       /\ (~NoApiKey /\ pc' \in {"lookup", "insert"}) => Len(prompts') = idx']_vars

\* the second TRACK of a file repeats the first: it has been enriched and a
\* second prompt has gone out for it before the dedup check finds it persisted
C15_Witness ==
    /\ pc = "lookup"
    /\ idx = 2
    /\ ~NoApiKey
    /\ Len(prompts) = 2
    /\ lexicon_data # Null
    /\ generated_tags # Null
    /\ SelectByNameArtist(track.Name, track.Artist)

(* C16: while two import batches run at the same time on files whose tracks
   all carry Name and Artist, the store never holds more than one record for
   a (name, artist) pair, however the lookups and inserts of the two batches
   interleave. *)
C16_DedupUnderInterleaving ==
    \A name \in Names, artist \in Artists :
        Cardinality({i \in 1..Len(tracks) :
                       tracks[i].name = name /\ tracks[i].artist = artist}) <= 1

====
